---- MODULE Spec2Model ----
(***************************************************************************)
(* Model of core/transcription_logic.py: Session, SessionManager, the      *)
(* background buffer flusher thread and the flush pipeline.                *)
(*                                                                         *)
(* Two threads run the code: the calling layer (the bot's event loop,      *)
(* which calls start_recording, stop_recording, process_audio_chunk,       *)
(* set_user_name and remove_session one at a time) and the daemon thread   *)
(* started in SessionManager.__init__ that runs _buffer_flusher.  No lock  *)
(* is taken anywhere in the code, so the interpreter may switch threads    *)
(* between any two statements; every action below is one stretch of code   *)
(* that the other thread cannot observe in the middle.                     *)
(*                                                                         *)
(* Python objects have identity: a Session lives on after                  *)
(* remove_session for as long as the flusher holds it.  heap is the store  *)
(* of Session objects (a sid is an object identity), sessions is the       *)
(* registry dict.                                                          *)
(*                                                                         *)
(* Text and bytes are sequences of integers (character codes, byte         *)
(* values).                                                                *)
(***************************************************************************)
EXTENDS Integers, Sequences, FiniteSets, TLC

\* ---------------------------------------------------------------- bounds
\* The calling layer makes at most MaxOps calls in a run.
MaxOps == 4

\* The guild ids and user ids it passes (opaque keys to the code).
CallIds == {1, 2}
UserIds == {1, 2}

\* ------------------------------------------------------- character codes
NL == 10
SP == 32
COLON == 58
Names == {<<65>>, <<66>>}

\* Markers (no text holds a negative code): a flush that ended in its except
\* branch, a flush or a call that an exception left, no value.
Failed == <<-1>>
Raised == <<-2>>
NoResult == <<-3>>

\* ------------------------------------------------- dicts (insertion order)
\* A dict whose keys are never deleted: the sequence of <<key, value>> in
\* insertion order.
Keys(d) == [i \in 1..Len(d) |-> d[i][1]]

Has(d, k) == \E i \in 1..Len(d) : d[i][1] = k

Get(d, k, default) ==
    IF Has(d, k) THEN d[CHOOSE i \in 1..Len(d) : d[i][1] = k][2] ELSE default

Put(d, k, v) ==
    IF Has(d, k)
    THEN [i \in 1..Len(d) |-> IF d[i][1] = k THEN <<k, v>> ELSE d[i]]
    ELSE Append(d, <<k, v>>)

\* ----------------------------------------------------------------- text
RECURSIVE Digits(_)
Digits(n) == IF n < 10 THEN <<48 + n>> ELSE Digits(n \div 10) \o <<48 + (n % 10)>>

\* f"User {uid}"
FallbackName(uid) == <<85, 115, 101, 114, SP>> \o Digits(uid)

\* The white space of str.strip(): the code points for which str.isspace()
\* holds.
IsSpace(c) ==
    c \in {9, 10, 11, 12, 13, 28, 29, 30, 31, SP, 133, 160, 5760, 8232, 8233, 8239, 8287, 12288}
           \cup (8192..8202)

RECURSIVE LStrip(_)
LStrip(s) == IF s # <<>> /\ IsSpace(Head(s)) THEN LStrip(Tail(s)) ELSE s

RECURSIVE RStrip(_)
RStrip(s) ==
    IF s # <<>> /\ IsSpace(s[Len(s)]) THEN RStrip(SubSeq(s, 1, Len(s) - 1)) ELSE s

\* str.strip()
Strip(s) == RStrip(LStrip(s))

RECURSIVE Join(_, _)
Join(sep, lines) ==
    IF lines = <<>> THEN <<>>
    ELSE IF Len(lines) = 1 THEN lines[1]
    ELSE lines[1] \o sep \o Join(sep, Tail(lines))

RECURSIVE Concat(_)
Concat(blocks) == IF blocks = <<>> THEN <<>> ELSE Head(blocks) \o Concat(Tail(blocks))

Range(s) == {s[i] : i \in 1..Len(s)}

IsPrefix(s, t) == Len(s) <= Len(t) /\ SubSeq(t, 1, Len(s)) = s

\* The speech-to-text engine is an external library.  What it hears in a
\* block of audio is written as one letter per byte, so that a segment
\* names the audio it came from; the text it returns for a block is that
\* word, that word padded with white space (ASCII or not), or white space
\* alone.
Word(block) == [i \in 1..Len(block) |-> 96 + block[i]]

EngineTexts(block) ==
    {Word(block), <<SP>> \o Word(block) \o <<NL>>, <<160>> \o Word(block) \o <<12288>>,
     <<SP>>, <<>>}

\* -------------------------------------------------------------- Session
\* Session.__init__
NewSession ==
    [is_recording |-> FALSE,
     user_transcripts |-> <<>>,
     user_names |-> <<>>,
     audio_buffers |-> <<>>]

\* An append_final_line that puts the text before the speaker's segments.
append_final_line_front(s, user_id, text) ==
    [s EXCEPT !.user_transcripts =
        Put(@, user_id, <<text>> \o Get(@, user_id, <<>>))]

\* Session.append_final_line, line 45, first call:
\* self.user_transcripts.setdefault(user_id, [])
SetDefaultSegments(s, user_id) ==
    [s EXCEPT !.user_transcripts = IF Has(@, user_id) THEN @ ELSE Put(@, user_id, <<>>)]

\* Session.append_final_line, line 45, second call: .append(text) on the
\* speaker's list
append_final_line(s, user_id, text) ==
    [s EXCEPT !.user_transcripts =
        Put(@, user_id, Append(Get(@, user_id, <<>>), text))]

RECURSIVE SpeakerLines(_, _)
SpeakerLines(name, texts) ==
    IF texts = <<>> THEN <<>>
    ELSE <<name \o <<COLON, NL>> \o Head(texts) \o <<NL>>>>
         \o SpeakerLines(name, Tail(texts))

RECURSIVE TranscriptLines(_, _)
TranscriptLines(s, items) ==
    IF items = <<>> THEN <<>>
    ELSE SpeakerLines(Get(s.user_names, Head(items)[1], FallbackName(Head(items)[1])),
                      Head(items)[2])
         \o TranscriptLines(s, Tail(items))

\* Session.get_combined_transcript
get_combined_transcript(s) == Join(<<NL>>, TranscriptLines(s, s.user_transcripts))

\* ------------------------------------------------------------- registry
\* self.sessions: the entries of the dict in insertion order.  Deleting a
\* key leaves a dummy entry behind (the dict is never resized: it holds at
\* most a handful of entries), which is what a live iterator walks over.
Dummy == [guild |-> 0, sid |-> 0]

Used(reg) == Cardinality({i \in 1..Len(reg) : reg[i].guild # 0})

Registered(reg, g) == \E i \in 1..Len(reg) : reg[i].guild = g

Lookup(reg, g) == reg[CHOOSE i \in 1..Len(reg) : reg[i].guild = g].sid

\* A remove_session that leaves the entry in the dict.
Remove_keeps(reg, g) == reg

\* A remove_session that empties the registry.
Remove_all(reg, g) == [i \in 1..Len(reg) |-> Dummy]

\* del self.sessions[guild_id]
Remove(reg, g) == [i \in 1..Len(reg) |-> IF reg[i].guild = g THEN Dummy ELSE reg[i]]

VARIABLES
    sessions,   \* SessionManager.sessions
    heap,       \* the Session objects ever created, by identity
    cpc,        \* calling thread: "idle", "extend", "stop_loop" or "combine"
    cloc,       \* calling thread: the locals of the running call, or the last call
    fpc,        \* flusher thread: "sleep", "iter", "gate", "list", "users" or "dead"
    floc,       \* flusher thread: the dict iterator, session and user_id list
    fl,         \* per thread: the frame of its _flush_buffer call
    files,      \* the transient files that exist in /tmp
    nchunks,    \* the number of non-empty chunks buffered so far
    nops,       \* the number of calls the calling layer has made
    created_for,\* history, per Session: the guild id it was created for
    ingested,   \* history, per Session and user: the bytes appended, in call order
    taken,      \* history, per Session and user: the blocks flushes took, in order
    settled,    \* history, per Session and user: <<block, outcome>> as flushes end
    spoken,     \* history, per Session: <<user_id, text, in registry>> of each append_final_line
    stopped,    \* history, per Session: the segments its last stop_recording to return read
    callers     \* per thread of a multi-threaded calling layer: its registry call

vars == <<sessions, heap, cpc, cloc, fpc, floc, fl, files, nchunks, nops,
          created_for, ingested, taken, settled, spoken, stopped, callers>>

Threads == {"caller", "flusher"}

NoFrame == [pc |-> "none", sid |-> 0, uid |-> 0, data |-> <<>>, text |-> <<>>]

IdleLoc == [op |-> "none", guild |-> 0, sid |-> 0, uid |-> 0, keys |-> <<>>,
            data |-> <<>>, live |-> FALSE, result |-> NoResult,
            absent |-> FALSE, again |-> FALSE,
            used |-> 0, lines |-> <<>>, read |-> <<>>]

\* The calling thread between two calls: the call that has ended, the
\* session it used and what it returned; whether the guild id had no session
\* when the call began (absent) and whether the call before it was the same
\* operation on the same guild id (again).
Returned(op, g, sid, result) ==
    [IdleLoc EXCEPT !.op = op, !.guild = g, !.sid = sid, !.result = result,
                    !.absent = IF cpc = "idle" THEN ~Registered(sessions, g) ELSE cloc.absent,
                    !.again = IF cpc = "idle" THEN cloc.op = op /\ cloc.guild = g
                              ELSE cloc.again]

NoIter == [pos |-> 0, len |-> 0, used |-> 0, sid |-> 0, keys |-> <<>>]

\* The threads of a calling layer that calls the registry from more than one.
Workers == {1, 2}

\* The result of a call that ended in KeyError.
KeyError == -1

NoCall == [pc |-> "idle", guild |-> 0, result |-> 0]

NoHist == [u \in UserIds |-> <<>>]

Init ==
    /\ sessions = <<>>
    /\ heap = <<>>
    /\ cpc = "idle"
    /\ cloc = IdleLoc
    /\ fpc = "sleep"
    /\ floc = NoIter
    /\ fl = [t \in Threads |-> NoFrame]
    /\ files = {}
    /\ nchunks = 0
    /\ nops = 0
    /\ created_for = <<>>
    /\ ingested = <<>>
    /\ taken = <<>>
    /\ settled = <<>>
    /\ spoken = <<>>
    /\ stopped = <<>>
    /\ callers = [w \in Workers |-> NoCall]


\* The Session object sid is a value of self.sessions.
InRegistry(sid) == \E i \in 1..Len(sessions) : sessions[i].guild # 0 /\ sessions[i].sid = sid

\* ------------------------------------------------ get_or_create_session
\* The Session get_or_create_session(g) returns, and the registry and the
\* object store it leaves: a lookup, or a fresh Session stored under g.
\* A get_or_create_session that hands the first Session to every guild id.
SidFor_first(g) == 1

SidFor(g) == IF Registered(sessions, g) THEN Lookup(sessions, g) ELSE Len(heap) + 1

\* A get_or_create_session that does not store the Session it creates.
RegAfter_forgets(g) == sessions

RegAfter(g) ==
    IF Registered(sessions, g) THEN sessions
    ELSE Append(sessions, [guild |-> g, sid |-> Len(heap) + 1])

HeapAfter(g) == IF Registered(sessions, g) THEN heap ELSE Append(heap, NewSession)

HistAfter(h, g) == IF Registered(sessions, g) THEN h ELSE Append(h, NoHist)

GetOrCreate(g) ==
    /\ nops < MaxOps
    /\ nops' = nops + 1
    /\ sessions' = RegAfter(g)
    /\ created_for' = IF Registered(sessions, g) THEN created_for ELSE Append(created_for, g)
    /\ ingested' = HistAfter(ingested, g)
    /\ taken' = HistAfter(taken, g)
    /\ settled' = HistAfter(settled, g)
    /\ spoken' = IF Registered(sessions, g) THEN spoken ELSE Append(spoken, <<>>)
    /\ stopped' = IF Registered(sessions, g) THEN stopped ELSE Append(stopped, <<>>)
    /\ callers' = callers

\* The locals of a call that has fetched its session and is still running.
Began(op, g) ==
    [IdleLoc EXCEPT !.op = op, !.guild = g, !.sid = SidFor(g),
                    !.absent = ~Registered(sessions, g),
                    !.again = cloc.op = op /\ cloc.guild = g]

\* ------------------------------------------------------- calling thread
\* A start_recording that begins with an empty session.
StartSession_fresh(s) ==
    [is_recording |-> TRUE, user_transcripts |-> <<>>, user_names |-> <<>>,
     audio_buffers |-> <<>>]

\* A start_recording that flips the recording flag.
StartSession_toggles(s) == [s EXCEPT !.is_recording = ~@]

\* start_recording, line 113: what it does to the session.
StartSession(s) == [s EXCEPT !.is_recording = TRUE]

\* start_recording(guild_id)
StartRecording(g) ==
    /\ cpc = "idle"
    /\ GetOrCreate(g)
    /\ heap' = [HeapAfter(g) EXCEPT ![SidFor(g)] = StartSession(@)]
    /\ cloc' = Returned("start", g, SidFor(g), NoResult)
    /\ UNCHANGED <<cpc, fpc, floc, fl, files, nchunks>>

\* A set_user_name that makes a buffer for the speaker it names.
SetName_buffers(s, u, name) ==
    [s EXCEPT !.user_names = Put(@, u, name),
              !.audio_buffers = IF Has(@, u) THEN @ ELSE Put(@, u, <<>>)]

\* A set_user_name that keeps a name the speaker already has.
SetName_keeps(s, u, name) ==
    [s EXCEPT !.user_names = IF Has(@, u) THEN @ ELSE Put(@, u, name)]

\* set_user_name, line 161: what it does to the session.
SetName(s, u, name) == [s EXCEPT !.user_names = Put(@, u, name)]

\* set_user_name(guild_id, user_id, display_name)
SetUserName(g, u, name) ==
    /\ cpc = "idle"
    /\ GetOrCreate(g)
    /\ heap' = [HeapAfter(g) EXCEPT ![SidFor(g)] = SetName(@, u, name)]
    /\ cloc' = [Returned("name", g, SidFor(g), NoResult) EXCEPT !.uid = u]
    /\ UNCHANGED <<cpc, fpc, floc, fl, files, nchunks>>

\* remove_session(guild_id)
RemoveSession(g) ==
    /\ cpc = "idle"
    /\ nops < MaxOps
    /\ nops' = nops + 1
    /\ sessions' = IF Registered(sessions, g) THEN Remove(sessions, g) ELSE sessions
    /\ cloc' = Returned("remove", g, 0, NoResult)
    /\ UNCHANGED <<heap, cpc, fpc, floc, fl, files, nchunks, created_for, ingested, taken,
                   settled, spoken, stopped, callers>>

\* A process_audio_chunk without the recording gate.
AcceptsChunk_always(s) == TRUE

\* process_audio_chunk, line 145: the recording gate.
AcceptsChunk(s) == s.is_recording

\* process_audio_chunk up to audio_buffers.setdefault(user_id, bytearray()):
\* the call returns at once when the session is not recording; otherwise it
\* now holds the bytearray that is in the user's slot (live: that bytearray
\* is still the one in the slot).
ProcessAudioChunk(g, u, data) ==
    /\ cpc = "idle"
    /\ GetOrCreate(g)
    /\ IF AcceptsChunk(HeapAfter(g)[SidFor(g)])
       THEN /\ heap' = [HeapAfter(g) EXCEPT ![SidFor(g)].audio_buffers =
                            IF Has(@, u) THEN @ ELSE Put(@, u, <<>>)]
            /\ cpc' = "extend"
            /\ cloc' = [Began("chunk", g) EXCEPT !.uid = u, !.data = data, !.live = TRUE]
            /\ nchunks' = IF data # <<>> THEN nchunks + 1 ELSE nchunks
       ELSE /\ heap' = HeapAfter(g)
            /\ cpc' = "idle"
            /\ cloc' = Returned("dropped", g, SidFor(g), NoResult)
            /\ nchunks' = nchunks
    /\ UNCHANGED <<fpc, floc, fl, files>>

\* process_audio_chunk, .extend(pcm_data) on the bytearray it holds.  When a
\* flush has put a new bytearray in the slot meanwhile, the bytes go to the
\* old one, which nothing reads again.
ExtendChunk ==
    /\ cpc = "extend"
    /\ heap' = IF cloc.live
               THEN [heap EXCEPT ![cloc.sid].audio_buffers =
                        Put(@, cloc.uid, Get(@, cloc.uid, <<>>) \o cloc.data)]
               ELSE heap
    /\ ingested' = [ingested EXCEPT ![cloc.sid][cloc.uid] = @ \o cloc.data]
    /\ cpc' = "idle"
    /\ cloc' = [Returned("chunk", cloc.guild, cloc.sid, NoResult) EXCEPT !.uid = cloc.uid]
    /\ UNCHANGED <<sessions, fpc, floc, fl, files, nchunks, nops, created_for, taken, settled,
                   spoken, stopped, callers>>

\* A stop_recording that starts the session's transcript afresh.
StopSession_resets(s) == [s EXCEPT !.is_recording = FALSE, !.user_transcripts = <<>>]

\* stop_recording, lines 128-130: what it does to the session before the drain.
StopSession(s) == [s EXCEPT !.is_recording = FALSE]

\* stop_recording(guild_id) up to list(session.audio_buffers.keys())
StopRecording(g) ==
    /\ cpc = "idle"
    /\ GetOrCreate(g)
    /\ heap' = [HeapAfter(g) EXCEPT ![SidFor(g)] = StopSession(@)]
    /\ cpc' = "stop_loop"
    /\ cloc' = [Began("stop", g) EXCEPT !.keys = Keys(heap'[SidFor(g)].audio_buffers)]
    /\ UNCHANGED <<fpc, floc, fl, files, nchunks>>

\* A flush that goes on when it has read no bytes.
BeginFlush_always(t, sid, uid) ==
    fl' = [fl EXCEPT ![t] = [pc |-> "clear", sid |-> sid, uid |-> uid,
                             data |-> Get(heap[sid].audio_buffers, uid, <<>>),
                             text |-> <<>>]]

\* _flush_buffer, lines 185-189: the bytes read from the user's slot; the
\* call goes on to line 190 only when there are any.
BeginFlush(t, sid, uid) ==
    LET data == Get(heap[sid].audio_buffers, uid, <<>>)
    IN  fl' = IF data = <<>> THEN fl
              ELSE [fl EXCEPT ![t] = [pc |-> "clear", sid |-> sid, uid |-> uid,
                                      data |-> data, text |-> <<>>]]

\* stop_recording, lines 130-131: the next user_id of the drain.
StopNextUser ==
    /\ cpc = "stop_loop"
    /\ fl["caller"].pc = "none"
    /\ cloc.keys # <<>>
    /\ BeginFlush("caller", cloc.sid, Head(cloc.keys))
    /\ cloc' = [cloc EXCEPT !.keys = Tail(@)]
    /\ UNCHANGED <<sessions, heap, cpc, fpc, floc, files, nchunks, nops,
                   created_for, ingested, taken, settled, spoken, stopped, callers>>

\* A get_combined_transcript that consumes the segments it returns.
AfterCombined_consumes(s) == [s EXCEPT !.user_transcripts = <<>>]

\* get_combined_transcript, lines 55-62: the session after the call (the
\* method assigns to its locals only).
AfterCombined(s) == s

\* stop_recording, line 132, and get_combined_transcript, lines 55-56: the
\* drain is over and the call makes the iterator over
\* self.user_transcripts.items(), which remembers the size of the dict.
StopCombine ==
    /\ cpc = "stop_loop"
    /\ fl["caller"].pc = "none"
    /\ cloc.keys = <<>>
    /\ cpc' = "combine"
    /\ cloc' = [cloc EXCEPT !.used = Len(heap[cloc.sid].user_transcripts)]
    /\ UNCHANGED <<sessions, heap, fpc, floc, fl, files, nchunks, nops,
                   created_for, ingested, taken, settled, spoken, stopped, callers>>

\* The iterator's next() raises RuntimeError when the dict has not the size
\* it remembers: a flush has added a speaker meanwhile.
CombineRaises == Len(heap[cloc.sid].user_transcripts) # cloc.used

\* get_combined_transcript, lines 56-59: the next speaker of the dict, the
\* speaker's name and the lines of the speaker's segments; or RuntimeError,
\* which nothing in stop_recording catches.
CombineNext ==
    /\ cpc = "combine"
    /\ IF CombineRaises
       THEN /\ cpc' = "idle"
            /\ cloc' = Returned("stop", cloc.guild, cloc.sid, Raised)
       ELSE /\ Len(cloc.read) < Len(heap[cloc.sid].user_transcripts)
            /\ cpc' = "combine"
            /\ LET item == heap[cloc.sid].user_transcripts[Len(cloc.read) + 1]
               IN  cloc' = [cloc EXCEPT
                               !.read = Append(@, item),
                               !.lines = @ \o TranscriptLines(heap[cloc.sid], <<item>>)]
    /\ UNCHANGED <<sessions, heap, fpc, floc, fl, files, nchunks, nops,
                   created_for, ingested, taken, settled, spoken, stopped, callers>>

\* get_combined_transcript, lines 56 and 60-62, and stop_recording, line
\* 133: the iterator is exhausted, the lines are joined and returned.
StopReturn ==
    /\ cpc = "combine"
    /\ ~CombineRaises
    /\ Len(cloc.read) = Len(heap[cloc.sid].user_transcripts)
    /\ cpc' = "idle"
    /\ cloc' = Returned("stop", cloc.guild, cloc.sid, Join(<<NL>>, cloc.lines))
    /\ heap' = [heap EXCEPT ![cloc.sid] = AfterCombined(@)]
    /\ stopped' = [stopped EXCEPT ![cloc.sid] = <<cloc.read>>]
    /\ UNCHANGED <<sessions, fpc, floc, fl, files, nchunks, nops,
                   created_for, ingested, taken, settled, spoken, callers>>


\* ------------------------------------------------------- flusher thread
\* _buffer_flusher, line 169: a new iterator over self.sessions.values().
\* It remembers the number of entries the dict holds now.
FlusherTick ==
    /\ fpc = "sleep"
    /\ fpc' = "iter"
    /\ floc' = [NoIter EXCEPT !.len = Used(sessions), !.used = Used(sessions)]
    /\ UNCHANGED <<sessions, heap, cpc, cloc, fl, files, nchunks, nops,
                   created_for, ingested, taken, settled, spoken, stopped, callers>>

\* The entries the iterator has still to walk over.
Ahead == {i \in (floc.pos + 1)..Len(sessions) : sessions[i].guild # 0}

\* The iterator's next() raises RuntimeError when the dict's size is not the
\* one it remembers, or when it finds an entry after it has yielded as many
\* as the dict held.
IterRaises == floc.used # Used(sessions) \/ (Ahead # {} /\ floc.len = 0)

\* _buffer_flusher, line 168: nothing catches an exception in the tick loop.
FlusherDies ==
    /\ fpc' = "dead"
    /\ floc' = NoIter

\* _buffer_flusher, line 169: the next session of the tick, or the end of
\* the tick and time.sleep(2).
FlusherNext ==
    /\ fpc = "iter"
    /\ IF IterRaises THEN FlusherDies
       ELSE IF Ahead = {}
       THEN /\ fpc' = "sleep"
            /\ floc' = NoIter
       ELSE LET i == CHOOSE j \in Ahead : \A k \in Ahead : j <= k
            IN  /\ fpc' = "gate"
                /\ floc' = [floc EXCEPT !.pos = i, !.len = @ - 1, !.sid = sessions[i].sid]
    /\ UNCHANGED <<sessions, heap, cpc, cloc, fl, files, nchunks, nops,
                   created_for, ingested, taken, settled, spoken, stopped, callers>>

\* _buffer_flusher, line 170: if session.is_recording
FlusherGate ==
    /\ fpc = "gate"
    /\ IF heap[floc.sid].is_recording
       THEN /\ fpc' = "list"
            /\ floc' = floc
       ELSE /\ fpc' = "iter"
            /\ floc' = [floc EXCEPT !.sid = 0]
    /\ UNCHANGED <<sessions, heap, cpc, cloc, fl, files, nchunks, nops,
                   created_for, ingested, taken, settled, spoken, stopped, callers>>

\* _buffer_flusher, line 171: list(session.audio_buffers.keys())
FlusherKeys ==
    /\ fpc = "list"
    /\ fpc' = "users"
    /\ floc' = [floc EXCEPT !.keys = Keys(heap[floc.sid].audio_buffers)]
    /\ UNCHANGED <<sessions, heap, cpc, cloc, fl, files, nchunks, nops,
                   created_for, ingested, taken, settled, spoken, stopped, callers>>

\* _buffer_flusher, lines 171-174: the next user_id of the session; a
\* buffer that holds bytes is flushed.
FlusherUser ==
    /\ fpc = "users"
    /\ fl["flusher"].pc = "none"
    /\ IF floc.keys = <<>>
       THEN /\ fpc' = "iter"
            /\ floc' = [floc EXCEPT !.sid = 0]
            /\ fl' = fl
       ELSE /\ fpc' = "users"
            /\ floc' = [floc EXCEPT !.keys = Tail(@)]
            /\ BeginFlush("flusher", floc.sid, Head(floc.keys))
    /\ UNCHANGED <<sessions, heap, cpc, cloc, files, nchunks, nops,
                   created_for, ingested, taken, settled, spoken, stopped, callers>>

\* ------------------------------------------------------- flush pipeline
\* pcm_filename and wav_filename of the flush of thread t (lines 192-193).
PcmFile(t) == <<"pcm", t, fl[t].data>>

WavFile(t) == <<"wav", t, fl[t].data>>

\* The flush of thread t has this outcome (a text, Failed or Raised).
Settle(t, outcome) ==
    settled' = [settled EXCEPT ![fl[t].sid][fl[t].uid] = Append(@, <<fl[t].data, outcome>>)]

\* A flush that leaves the bytes it read in the buffer.
Cleared_keeps(s, uid) == s

\* _flush_buffer, line 190: what it does to the session.
Cleared(s, uid) == [s EXCEPT !.audio_buffers = Put(@, uid, <<>>)]

\* _flush_buffer, line 190: session.audio_buffers[user_id] = bytearray().
\* A bytearray that process_audio_chunk holds is no longer the one in the slot.
FlushClear(t) ==
    /\ fl[t].pc = "clear"
    /\ heap' = [heap EXCEPT ![fl[t].sid] = Cleared(@, fl[t].uid)]
    /\ taken' = [taken EXCEPT ![fl[t].sid][fl[t].uid] = Append(@, fl[t].data)]
    /\ cloc' = IF cpc = "extend" /\ cloc.sid = fl[t].sid /\ cloc.uid = fl[t].uid
               THEN [cloc EXCEPT !.live = FALSE]
               ELSE cloc
    /\ fl' = [fl EXCEPT ![t].pc = "persist"]
    /\ UNCHANGED <<sessions, cpc, fpc, floc, files, nchunks, nops, created_for, ingested,
                   settled, spoken, stopped, callers>>

\* An exception leaves _flush_buffer: it ends the flusher thread, or leaves
\* stop_recording.
FlushRaises(t) ==
    /\ fl' = [fl EXCEPT ![t] = NoFrame]
    /\ Settle(t, Raised)
    /\ IF t = "flusher"
       THEN /\ FlusherDies
            /\ UNCHANGED <<cpc, cloc>>
       ELSE /\ cpc' = "idle"
            /\ cloc' = Returned("stop", cloc.guild, cloc.sid, Raised)
            /\ UNCHANGED <<fpc, floc>>

\* _flush_buffer, lines 192-195: open(pcm_filename, "wb") and f.write, which
\* no try covers.  open can fail, and write can fail after open has created
\* the file.
FlushPersist(t) ==
    /\ fl[t].pc = "persist"
    /\ \/ /\ files' = files \cup {PcmFile(t)}
          /\ fl' = [fl EXCEPT ![t].pc = "convert"]
          /\ UNCHANGED <<cpc, cloc, fpc, floc, settled>>
       \/ /\ files' = files
          /\ FlushRaises(t)
       \/ /\ files' = files \cup {PcmFile(t)}
          /\ FlushRaises(t)
    /\ UNCHANGED <<sessions, heap, nchunks, nops, created_for, ingested, taken, spoken, stopped,
                   callers>>

\* An except branch that puts the bytes back in front of the live buffer.
FlushExcept_requeues(s, uid, data) ==
    [s EXCEPT !.audio_buffers = Put(@, uid, data \o Get(@, uid, <<>>))]

\* _flush_buffer, lines 205-206: the except branch, given the session, the
\* user and the bytes the flush took.
FlushExcept(s, uid, data) == s

\* _flush_buffer, lines 205-207: the exception is caught by the except
\* branch and the flush goes on to the finally branch.
FlushFails(t) ==
    /\ heap' = [heap EXCEPT ![fl[t].sid] = FlushExcept(@, fl[t].uid, fl[t].data)]
    /\ fl' = [fl EXCEPT ![t].pc = "rm_pcm"]
    /\ Settle(t, Failed)
    /\ UNCHANGED <<spoken, stopped, callers>>

\* _flush_buffer, line 198: audio_utils.convert_pcm_to_wav, which runs
\* ffmpeg with check=True: it returns with the wav file written, or raises
\* with no wav file (ffmpeg not found) or with one (ffmpeg fails after it
\* has opened its output).
FlushConvert(t) ==
    /\ fl[t].pc = "convert"
    /\ \/ /\ files' = files \cup {WavFile(t)}
          /\ fl' = [fl EXCEPT ![t].pc = "transcribe"]
          /\ UNCHANGED <<heap, settled, spoken, stopped, callers>>
       \/ /\ files' = files
          /\ FlushFails(t)
       \/ /\ files' = files \cup {WavFile(t)}
          /\ FlushFails(t)
    /\ UNCHANGED <<sessions, cpc, cloc, fpc, floc, nchunks, nops, created_for, ingested,
                   taken>>

\* A flush that appends to the session its guild id has in the registry now.
Target_lookup(t) ==
    IF Registered(sessions, created_for[fl[t].sid])
    THEN Lookup(sessions, created_for[fl[t].sid])
    ELSE fl[t].sid

\* _flush_buffer, line 204: the Session the text is appended to, which is the
\* object the flush was called with.
Target(t) == fl[t].sid

\* _flush_buffer, lines 201-204: transcribe_file(wav_filename).strip() and
\* the setdefault of append_final_line (line 45); or the except branch.
FlushTranscribe(t) ==
    /\ fl[t].pc = "transcribe"
    /\ \/ \E raw \in EngineTexts(fl[t].data) :
            /\ heap' = [heap EXCEPT ![Target(t)] = SetDefaultSegments(@, fl[t].uid)]
            /\ fl' = [fl EXCEPT ![t].pc = "append", ![t].text = Strip(raw)]
            /\ UNCHANGED <<files, settled, spoken, stopped, callers>>
       \/ /\ files' = files
          /\ FlushFails(t)
    /\ UNCHANGED <<sessions, cpc, cloc, fpc, floc, nchunks, nops, created_for, ingested,
                   taken>>

\* append_final_line, line 45, .append(text); the flush goes on to the
\* finally branch.
FlushAppend(t) ==
    /\ fl[t].pc = "append"
    /\ heap' = [heap EXCEPT ![Target(t)] = append_final_line(@, fl[t].uid, fl[t].text)]
    /\ fl' = [fl EXCEPT ![t].pc = "rm_pcm"]
    /\ Settle(t, fl[t].text)
    /\ spoken' = [spoken EXCEPT ![fl[t].sid] =
                      Append(@, <<fl[t].uid, fl[t].text, InRegistry(fl[t].sid)>>)]
    /\ UNCHANGED <<sessions, cpc, cloc, fpc, floc, files, nchunks, nops, created_for,
                   ingested, taken, stopped, callers>>

\* _flush_buffer, lines 208-209: os.remove(pcm_filename) when the file
\* exists.
FlushRemovePcm(t) ==
    /\ fl[t].pc = "rm_pcm"
    /\ files' = files \ {PcmFile(t)}
    /\ fl' = [fl EXCEPT ![t].pc = "rm_wav"]
    /\ UNCHANGED <<sessions, heap, cpc, cloc, fpc, floc, nchunks, nops, created_for,
                   ingested, taken, settled, spoken, stopped, callers>>

\* _flush_buffer, lines 210-211: os.remove(wav_filename) when the file
\* exists, and the return of _flush_buffer.
FlushRemoveWav(t) ==
    /\ fl[t].pc = "rm_wav"
    /\ files' = files \ {WavFile(t)}
    /\ fl' = [fl EXCEPT ![t] = NoFrame]
    /\ UNCHANGED <<sessions, heap, cpc, cloc, fpc, floc, nchunks, nops, created_for,
                   ingested, taken, settled, spoken, stopped, callers>>

\* ---------------------------------------------------------- the program
Chunks == {<<>>, <<nchunks + 1>>}

Caller ==
    \/ \E g \in CallIds : StartRecording(g)
    \/ \E g \in CallIds : StopRecording(g)
    \/ \E g \in CallIds, u \in UserIds, data \in Chunks : ProcessAudioChunk(g, u, data)
    \/ \E g \in CallIds, u \in UserIds, name \in Names : SetUserName(g, u, name)
    \/ \E g \in CallIds : RemoveSession(g)
    \/ ExtendChunk
    \/ StopNextUser
    \/ StopCombine
    \/ CombineNext
    \/ StopReturn

Flusher ==
    \/ FlusherTick
    \/ FlusherNext
    \/ FlusherGate
    \/ FlusherKeys
    \/ FlusherUser

Flush ==
    \/ \E t \in Threads : FlushClear(t)
    \/ \E t \in Threads : FlushPersist(t)
    \/ \E t \in Threads : FlushConvert(t)
    \/ \E t \in Threads : FlushTranscribe(t)
    \/ \E t \in Threads : FlushAppend(t)
    \/ \E t \in Threads : FlushRemovePcm(t)
    \/ \E t \in Threads : FlushRemoveWav(t)

Next == Caller \/ Flusher \/ Flush

Spec == Init /\ [][Next]_vars

\* The flusher thread is scheduled again and again, and the converter and
\* the engine return or fail: every step of the flusher thread that stays
\* possible is taken.
FlusherThread ==
    \/ Flusher
    \/ FlushClear("flusher")
    \/ FlushPersist("flusher")
    \/ FlushConvert("flusher")
    \/ FlushTranscribe("flusher")
    \/ FlushAppend("flusher")
    \/ FlushRemovePcm("flusher")
    \/ FlushRemoveWav("flusher")

FairSpec == Spec /\ WF_vars(FlusherThread)

\* ------------------------------------ the registry under several callers
\* get_or_create_session and remove_session called from the threads of
\* Workers: each line of the two methods is one step (the methods take no
\* lock, and constructing a Session runs interpreted code during which
\* threads switch).
Regvars == <<cpc, cloc, fpc, floc, fl, files, nchunks, ingested, taken, settled, spoken, stopped>>

\* self.sessions[guild_id] = value: a new key goes to the end, a key that is
\* there keeps its place.
Store(reg, g, sid) ==
    IF Registered(reg, g)
    THEN [i \in 1..Len(reg) |-> IF reg[i].guild = g THEN [guild |-> g, sid |-> sid] ELSE reg[i]]
    ELSE Append(reg, [guild |-> g, sid |-> sid])

\* get_or_create_session, line 86: guild_id not in self.sessions
GocTest(w, g) ==
    /\ callers[w].pc = "idle"
    /\ nops < MaxOps
    /\ nops' = nops + 1
    /\ callers' = [callers EXCEPT ![w] =
                      [pc |-> IF Registered(sessions, g) THEN "goc_return" ELSE "goc_store",
                       guild |-> g, result |-> 0]]
    /\ UNCHANGED <<sessions, heap, created_for>>
    /\ UNCHANGED Regvars

\* get_or_create_session, line 87: self.sessions[guild_id] = Session()
GocStore(w) ==
    /\ callers[w].pc = "goc_store"
    /\ heap' = Append(heap, NewSession)
    /\ created_for' = Append(created_for, callers[w].guild)
    /\ sessions' = Store(sessions, callers[w].guild, Len(heap) + 1)
    /\ callers' = [callers EXCEPT ![w].pc = "goc_return"]
    /\ UNCHANGED nops
    /\ UNCHANGED Regvars

\* get_or_create_session, line 89: return self.sessions[guild_id]
GocReturn(w) ==
    /\ callers[w].pc = "goc_return"
    /\ callers' = [callers EXCEPT ![w].pc = "idle",
                                  ![w].result = IF Registered(sessions, callers[w].guild)
                                                THEN Lookup(sessions, callers[w].guild)
                                                ELSE KeyError]
    /\ UNCHANGED <<sessions, heap, created_for, nops>>
    /\ UNCHANGED Regvars

\* remove_session, line 98: guild_id in self.sessions
RmTest(w, g) ==
    /\ callers[w].pc = "idle"
    /\ nops < MaxOps
    /\ nops' = nops + 1
    /\ callers' = [callers EXCEPT ![w] =
                      [pc |-> IF Registered(sessions, g) THEN "rm_del" ELSE "idle",
                       guild |-> g, result |-> 0]]
    /\ UNCHANGED <<sessions, heap, created_for>>
    /\ UNCHANGED Regvars

\* remove_session, line 99: del self.sessions[guild_id]
RmDel(w) ==
    /\ callers[w].pc = "rm_del"
    /\ sessions' = IF Registered(sessions, callers[w].guild)
                   THEN Remove(sessions, callers[w].guild)
                   ELSE sessions
    /\ callers' = [callers EXCEPT ![w].pc = "idle",
                                  ![w].result = IF Registered(sessions, callers[w].guild)
                                                THEN 0 ELSE KeyError]
    /\ UNCHANGED <<heap, created_for, nops>>
    /\ UNCHANGED Regvars

RegistryNext ==
    \/ \E w \in Workers, g \in CallIds : GocTest(w, g)
    \/ \E w \in Workers : GocStore(w)
    \/ \E w \in Workers : GocReturn(w)
    \/ \E w \in Workers, g \in CallIds : RmTest(w, g)
    \/ \E w \in Workers : RmDel(w)

RegistrySpec == Init /\ [][RegistryNext]_vars


\* ------------------------------------------------------------ properties
Sids == 1..Len(heap)

Buffer(sid, u) == Get(heap[sid].audio_buffers, u, <<>>)

Segments(sid, u) == Get(heap[sid].user_transcripts, u, <<>>)

Label(sid, u) == Get(heap[sid].user_names, u, FallbackName(u))

Contains(sub, s) ==
    \E i \in 0..(Len(s) - Len(sub)) : SubSeq(s, i + 1, i + Len(sub)) = sub

\* The bytes a text was transcribed from (see Word).
Heard(text) == {c - 96 : c \in Range(text)}

\* stop_recording has returned a transcript and the calling layer has made
\* no call since.
StopReturned == cpc = "idle" /\ cloc.op = "stop" /\ cloc.result # Raised

\* C1: for every session and speaker, the blocks the flushes took, in flush
\* order, followed by what is still buffered, are the bytes
\* process_audio_chunk appended, in call order: nothing is lost, reordered or
\* taken twice.
C1_FlushedIsIngested ==
    \A sid \in Sids, u \in UserIds :
        Concat(taken[sid][u]) \o Buffer(sid, u) = ingested[sid][u]

\* C2: no buffered byte is taken by two flush operations.
C2_NoByteTakenTwice ==
    \A sid \in Sids, u \in UserIds :
        \A i, j \in 1..Len(taken[sid][u]) :
            i # j => Range(taken[sid][u][i]) \cap Range(taken[sid][u][j]) = {}

\* C3: once stop_recording has returned, every buffer of the session is
\* empty and the returned transcript holds the segment of every block taken
\* from the session whose transcription succeeded.
C3_StopReturnsAllSegments ==
    StopReturned =>
        \A u \in UserIds :
            /\ Buffer(cloc.sid, u) = <<>>
            /\ \A i \in 1..Len(settled[cloc.sid][u]) :
                 settled[cloc.sid][u][i][2] \notin {Failed, Raised} =>
                    Contains(Label(cloc.sid, u) \o <<COLON, NL>>
                                \o settled[cloc.sid][u][i][2] \o <<NL>>,
                             cloc.result)

\* C4: a speaker's segments are in the order in which their audio was
\* ingested (bytes are numbered in the order of ingestion): no segment of
\* later audio stands before a segment of earlier audio.  Stated for the
\* speakers none of whose bytes was taken by two flushes, so that a
\* violation is one of order alone.
C4_SegmentsInArrivalOrder ==
    \A sid \in Sids, u \in UserIds :
        Len(Concat(taken[sid][u])) = Cardinality(Range(Concat(taken[sid][u]))) =>
            \A i, j \in 1..Len(Segments(sid, u)) :
                i < j =>
                    \A a \in Heard(Segments(sid, u)[i]), b \in Heard(Segments(sid, u)[j]) :
                        a <= b


Recording(g) == Registered(sessions, g) /\ heap[Lookup(sessions, g)].is_recording

\* C5: a process_audio_chunk call on a session that is not recording (or
\* that it creates) returns at once and leaves every buffer of every
\* session as it was, a session it creates having none.
C5_DroppedChunkChangesNoBuffer ==
    [][\A g \in CallIds, u \in UserIds, data \in Chunks :
          (ProcessAudioChunk(g, u, data) /\ ~Recording(g)) =>
              /\ cpc' = "idle"
              /\ \A sid \in Sids : heap'[sid].audio_buffers = heap[sid].audio_buffers
              /\ \A sid \in 1..Len(heap') : sid \notin Sids => heap'[sid].audio_buffers = <<>>
      ]_vars

\* A chunk was dropped by a session that has a buffer from an earlier recording.
C5_Witness ==
    /\ cpc = "idle"
    /\ cloc.op = "dropped"
    /\ \E u \in UserIds : Has(heap[cloc.sid].audio_buffers, u)

\* The bytes in a session's buffers and the audio behind its segments were
\* ingested into that very session.
SessionDataIsOwn ==
    \A sid \in Sids, u \in UserIds :
        /\ Range(Buffer(sid, u)) \subseteq Range(ingested[sid][u])
        /\ \A i \in 1..Len(Segments(sid, u)) :
              Heard(Segments(sid, u)[i]) \subseteq Range(ingested[sid][u])

\* C6: remove_session(g) leaves no session registered under g; a session
\* that gets registered under g is a new object that holds no segment and no
\* buffer, records only when start_recording made it and has a name only
\* when set_user_name made it; names change only by set_user_name on the
\* session's own guild id; and no session ever holds audio or segments of
\* another.
C6_RemovedSessionStaysGone ==
    [][/\ \A g \in CallIds : RemoveSession(g) => ~Registered(sessions', g)
       /\ \A g \in CallIds :
            (~Registered(sessions, g) /\ Registered(sessions', g)) =>
                /\ Lookup(sessions', g) \notin Sids
                /\ heap'[Lookup(sessions', g)].user_transcripts = <<>>
                /\ heap'[Lookup(sessions', g)].audio_buffers = <<>>
                /\ heap'[Lookup(sessions', g)].is_recording => StartRecording(g)
                /\ heap'[Lookup(sessions', g)].user_names # <<>> =>
                      \E u \in UserIds, name \in Names : SetUserName(g, u, name)
       /\ \A sid \in Sids :
            heap'[sid].user_names # heap[sid].user_names =>
                \E u \in UserIds, name \in Names : SetUserName(created_for[sid], u, name)
       /\ SessionDataIsOwn'
      ]_vars

\* A session that held audio or segments was removed and a new session is
\* registered under its guild id.
C6_Witness ==
    \E old \in Sids, new \in Sids :
        /\ old < new
        /\ created_for[old] = created_for[new]
        /\ Registered(sessions, created_for[new])
        /\ Lookup(sessions, created_for[new]) = new
        /\ \E u \in UserIds : Buffer(old, u) # <<>> \/ Segments(old, u) # <<>>

\* C7: stop_recording never ends by raising: it ends with a transcript and
\* with every buffer of the session drained.
C7_StopDrainsAndReturns ==
    (cpc = "idle" /\ cloc.op = "stop") =>
        /\ cloc.result # Raised
        /\ \A u \in UserIds : Buffer(cloc.sid, u) = <<>>

\* The texts of the flushes that ended with one, in the order they ended.
RECURSIVE TextsOf(_)
TextsOf(outcomes) ==
    IF outcomes = <<>> THEN <<>>
    ELSE IF Head(outcomes)[2] \in {Failed, Raised} THEN TextsOf(Tail(outcomes))
    ELSE <<Head(outcomes)[2]>> \o TextsOf(Tail(outcomes))

\* A flush of speaker u in session sid has its text and is between the
\* setdefault and the append of append_final_line.
Appending(sid, u) ==
    \E t \in Threads : fl[t].pc = "append" /\ Target(t) = sid /\ fl[t].uid = u

\* C8: no byte a flush took is in the live buffer again; a speaker's
\* segments are the texts of the flushes that succeeded, one each, so a
\* failed flush appends nothing; a speaker has an entry in user_transcripts
\* only when a flush of the speaker got a text, so a speaker whose every
\* flush failed has none; and a session none of whose flushes succeeded has
\* an empty combined transcript.
C8_FailedFlushIsDiscarded ==
    \A sid \in Sids :
        /\ \A u \in UserIds :
             /\ Range(Buffer(sid, u)) \cap Range(Concat(taken[sid][u])) = {}
             /\ Segments(sid, u) = TextsOf(settled[sid][u])
             /\ Has(heap[sid].user_transcripts, u)
                   <=> (TextsOf(settled[sid][u]) # <<>> \/ Appending(sid, u))
        /\ (\A u \in UserIds : TextsOf(settled[sid][u]) = <<>>) =>
              get_combined_transcript(heap[sid]) = <<>>

\* A speaker's only flush has failed in conversion or transcription.
C8_Witness ==
    \E sid \in Sids, u \in UserIds :
        /\ settled[sid][u] # <<>>
        /\ \A i \in 1..Len(settled[sid][u]) : settled[sid][u][i][2] = Failed
        /\ ~Has(heap[sid].user_transcripts, u)
        /\ Buffer(sid, u) = <<>>

\* C9: while the flusher's flush of one speaker is in conversion or
\* transcription and the next speaker of the tick has bytes buffered, the
\* tick can go on to that speaker's flush.
C9_OtherSpeakerNotDelayed ==
    (/\ fpc = "users"
     /\ fl["flusher"].pc \in {"convert", "transcribe"}
     /\ floc.keys # <<>>
     /\ Buffer(floc.sid, Head(floc.keys)) # <<>>) => ENABLED FlusherUser

\* The entries <<user_id, text>> of a user_transcripts dict, in the order
\* get_combined_transcript walks them.
RECURSIVE Entries(_)
Entries(d) ==
    IF d = <<>> THEN <<>>
    ELSE [i \in 1..Len(Head(d)[2]) |-> <<Head(d)[1], Head(d)[2][i]>>] \o Entries(Tail(d))

\* C10: only remove_session(g) ends the registration of g's session;
\* stop_recording leaves the session's names and segments as they are when it
\* clears the recording flag; during its drain and its reading of the
\* transcript the names stay and every speaker's segments only grow; and
\* when it returns the session is still registered, holds every segment the
\* returned transcript was made of, and its combined transcript is the
\* returned one when no segment came in during the reading.
C10_StopKeepsSession ==
    [][/\ \A g \in CallIds :
            (Registered(sessions, g) /\ ~RemoveSession(g)) =>
                (Registered(sessions', g) /\ Lookup(sessions', g) = Lookup(sessions, g))
       /\ \A g \in CallIds :
            (StopRecording(g) /\ Registered(sessions, g)) =>
                /\ heap'[Lookup(sessions, g)].user_transcripts
                      = heap[Lookup(sessions, g)].user_transcripts
                /\ heap'[Lookup(sessions, g)].user_names
                      = heap[Lookup(sessions, g)].user_names
       /\ cpc \in {"stop_loop", "combine"} =>
            /\ heap'[cloc.sid].user_names = heap[cloc.sid].user_names
            /\ \A u \in UserIds :
                 IsPrefix(Segments(cloc.sid, u),
                          Get(heap'[cloc.sid].user_transcripts, u, <<>>))
       /\ StopReturn =>
            /\ \A u \in UserIds :
                 IsPrefix(Get(cloc.read, u, <<>>),
                          Get(heap'[cloc.sid].user_transcripts, u, <<>>))
            /\ cloc.read = heap'[cloc.sid].user_transcripts =>
                  cloc'.result = get_combined_transcript(heap'[cloc.sid])
            /\ Registered(sessions', cloc.guild)
            /\ Lookup(sessions', cloc.guild) = cloc.sid
      ]_vars

\* stop_recording has returned a transcript with a named speaker's segment
\* and the session is registered.
C10_Witness ==
    /\ StopReturned
    /\ cloc.result # <<>>
    /\ heap[cloc.sid].user_names # <<>>
    /\ Registered(sessions, cloc.guild)
    /\ Lookup(sessions, cloc.guild) = cloc.sid

\* C11: a start_recording(g) that follows a start_recording(g), with no
\* other call between them, leaves the registry and every session (recording
\* flag, segments, names, buffers) as they were.
C11_StartTwiceIsStartOnce ==
    [][\A g \in CallIds :
          (StartRecording(g) /\ cloc.op = "start" /\ cloc.guild = g) =>
              /\ sessions' = sessions
              /\ heap' = heap
              /\ heap'[Lookup(sessions', g)].is_recording
      ]_vars

\* start_recording was called twice in a row on a session that holds audio
\* or a segment.
C11_Witness ==
    /\ cpc = "idle"
    /\ cloc.op = "start"
    /\ cloc.again
    /\ \E u \in UserIds : Buffer(cloc.sid, u) # <<>> \/ Segments(cloc.sid, u) # <<>>

\* C12: start_recording, stop_recording, process_audio_chunk and
\* set_user_name on a guild id that has no session register a new Session
\* under it and end without an exception (process_audio_chunk,
\* start_recording and set_user_name at once, stop_recording with nothing to
\* drain), and that stop_recording returns the empty transcript.
C12_AbsentSessionIsCreated ==
    [][/\ \A g \in CallIds :
            (/\ ~Registered(sessions, g)
             /\ \/ StartRecording(g)
                \/ StopRecording(g)
                \/ \E u \in UserIds, data \in Chunks : ProcessAudioChunk(g, u, data)
                \/ \E u \in UserIds, name \in Names : SetUserName(g, u, name)) =>
                /\ Registered(sessions', g)
                /\ Lookup(sessions', g) \notin Sids
                /\ Lookup(sessions', g) \in 1..Len(heap')
                /\ cloc'.result # Raised
                /\ cpc' = "idle" \/ (StopRecording(g) /\ cloc'.keys = <<>>)
       /\ (cpc \in {"stop_loop", "combine"} /\ cloc.absent) =>
            /\ cloc'.result # Raised
            /\ StopReturn => cloc'.result = <<>>
      ]_vars

\* stop_recording on a guild id that had no session has returned the empty
\* transcript, an older session being there with a segment of its own.
C12_Witness ==
    /\ cpc = "idle"
    /\ cloc.op = "stop"
    /\ cloc.absent
    /\ cloc.result = <<>>
    /\ \E sid \in Sids, u \in UserIds : sid # cloc.sid /\ Segments(sid, u) # <<>>

\* C13: no step of get_combined_transcript changes a Session, and when the
\* session's segments are those the call has read (no segment came in
\* meanwhile), a second call on the session returns the text the first call
\* returned.
C13_CombinedTranscriptIsPureRead ==
    [][/\ (StopCombine \/ CombineNext \/ StopReturn) => heap' = heap
       /\ (StopReturn /\ cloc.read = heap[cloc.sid].user_transcripts) =>
             get_combined_transcript(heap'[cloc.sid]) = cloc'.result
      ]_vars

\* get_combined_transcript has returned a text of two entries or more.
C13_Witness ==
    /\ StopReturned
    /\ \E u, v \in UserIds : Segments(cloc.sid, u) # <<>> /\ Segments(cloc.sid, v) # <<>> /\ u # v
    /\ cloc.result = get_combined_transcript(heap[cloc.sid])

\* The position of the first segment of the speaker of log[i].
FirstAt(log, i) ==
    CHOOSE j \in 1..i : log[j][1] = log[i][1] /\ \A k \in 1..(j - 1) : log[k][1] # log[i][1]

\* log[j] stands before log[i] in the transcript: its speaker was heard
\* first, or it is an earlier segment of the same speaker.
Before(log, j, i) ==
    \/ FirstAt(log, j) < FirstAt(log, i)
    \/ FirstAt(log, j) = FirstAt(log, i) /\ j < i

\* The k-th entry of the transcript of the segments in log.
EntryAt(log, k) ==
    log[CHOOSE i \in 1..Len(log) : Cardinality({j \in 1..Len(log) : Before(log, j, i)}) = k - 1]

\* The text of the entries (<<user_id, text>>) under the labels L: label,
\* colon, newline, text, newline for each entry, and one newline between
\* two entries.
Laid(entries, L) ==
    Concat([k \in 1..Len(entries) |->
               L[entries[k][1]] \o <<COLON, NL>> \o entries[k][2] \o <<NL>>
               \o (IF k < Len(entries) THEN <<NL>> ELSE <<>>)])

\* The transcript of the segments in log (<<user_id, text>> in append order)
\* under the labels L: the speakers in the order of their first segment,
\* each speaker's segments in append order.
Layout(log, L) == Laid([k \in 1..Len(log) |-> EntryAt(log, k)], L)

\* C14: the combined transcript of a session lists the speakers in the
\* order of their first segment and each speaker's segments in append order,
\* each as label, colon, newline, text, newline, with one newline between
\* two entries.
C14_TranscriptLayout ==
    \A sid \in Sids :
        get_combined_transcript(heap[sid]) = Layout(spoken[sid], [u \in UserIds |-> Label(sid, u)])

\* The label of speaker u in session s.
LabelOf(s, u) == Get(s.user_names, u, FallbackName(u))

\* C15: after set_user_name(g, u, name) the label of u in g's session is
\* name, on all of u's segments, those appended before the call included,
\* and the other speakers' labels are as before; no other step changes a
\* label; and a speaker without a name is labelled "User " and the decimal
\* user id.
C15_LabelIsLastNameSet ==
    [][/\ \A g \in CallIds, u \in UserIds, name \in Names :
            SetUserName(g, u, name) =>
                /\ Registered(sessions', g)
                /\ LabelOf(heap'[Lookup(sessions', g)], u) = name
                /\ get_combined_transcript(heap'[Lookup(sessions', g)])
                      = Laid(Entries(heap'[Lookup(sessions', g)].user_transcripts),
                             [v \in UserIds |-> IF v = u THEN name
                                                ELSE LabelOf(heap'[Lookup(sessions', g)], v)])
                /\ Registered(sessions, g) =>
                      \A v \in UserIds \ {u} :
                          LabelOf(heap'[Lookup(sessions, g)], v) = Label(Lookup(sessions, g), v)
       /\ \A sid \in Sids, u \in UserIds :
            LabelOf(heap'[sid], u) # Label(sid, u) =>
                \E name \in Names : SetUserName(created_for[sid], u, name)
       /\ \A sid \in Sids, u \in UserIds :
            ~Has(heap'[sid].user_names, u) =>
                get_combined_transcript(heap'[sid])
                    = Laid(Entries(heap'[sid].user_transcripts),
                           [v \in UserIds |-> IF v = u THEN <<85, 115, 101, 114, 32, 48 + u>>
                                              ELSE LabelOf(heap'[sid], v)])
      ]_vars

\* set_user_name was called twice in a row on a session, the second time for
\* a speaker who has a segment.
C15_Witness ==
    /\ cpc = "idle"
    /\ cloc.op = "name"
    /\ cloc.again
    /\ Segments(cloc.sid, cloc.uid) # <<>>
    /\ \E i \in 1..Len(Segments(cloc.sid, cloc.uid)) : Segments(cloc.sid, cloc.uid)[i] # <<>>

\* C16: remove_session(g) returns without an exception, leaves no session
\* under g, leaves every other guild id registered to the session it had
\* and every Session object as it was; when g had no session the registry
\* is unchanged.
C16_RemoveTakesOnlyItsEntry ==
    [][\A g \in CallIds :
          RemoveSession(g) =>
              /\ ~Registered(sessions', g)
              /\ \A h \in CallIds \ {g} :
                    /\ Registered(sessions', h) <=> Registered(sessions, h)
                    /\ Registered(sessions, h) => Lookup(sessions', h) = Lookup(sessions, h)
              /\ heap' = heap
              /\ ~Registered(sessions, g) => sessions' = sessions
              /\ cpc' = "idle"
              /\ cloc'.result # Raised
      ]_vars

\* remove_session has removed a session while another guild id has a
\* session that records or has a name.
C16_Witness ==
    /\ cpc = "idle"
    /\ cloc.op = "remove"
    /\ ~cloc.absent
    /\ \E h \in CallIds :
          /\ h # cloc.guild
          /\ Registered(sessions, h)
          /\ heap[Lookup(sessions, h)] # NewSession

\* C17: no speaker's transcript sequence holds an empty segment.
C17_NoEmptySegment ==
    \A sid \in Sids, u \in UserIds :
        \A i \in 1..Len(Segments(sid, u)) : Segments(sid, u)[i] # <<>>

\* C18: no step taken while the flusher thread is inside _flush_buffer ends
\* the tick loop.
C18_FlushFailureStaysInFlush ==
    [][fl["flusher"].pc # "none" => fpc' # "dead"]_vars

\* C19: whenever no flush is in progress, no transient file exists.
C19_NoTransientFileLeft ==
    (\A t \in Threads : fl[t].pc = "none") => files = {}

\* C20: the flusher thread takes bytes to flush only from a session that is
\* recording.
C20_TickSkipsStoppedSession ==
    [][(FlusherUser /\ fl'["flusher"].pc = "clear") => heap[floc.sid].is_recording]_vars

\* Speaker u has bytes buffered in the Session s, which is in the registry
\* and recording.
Pending(s, u) == s \in Sids /\ InRegistry(s) /\ heap[s].is_recording /\ Buffer(s, u) # <<>>

\* C21: with the flusher thread scheduled fairly, bytes buffered in a
\* session that is registered and recording do not stay buffered for ever:
\* a flush takes them, unless the session stops recording or is removed.
C21_BufferedAudioIsFlushed ==
    \A s \in 1..MaxOps, u \in UserIds : Pending(s, u) ~> ~Pending(s, u)

\* C22: a step of conversion, of transcription, of the append or of the
\* removal of the files of a flush whose session is no longer in the
\* registry ends without an exception leaving the flush and leaves every
\* session that is in the registry as it was.
C22_LateResultReachesNoLiveSession ==
    [][\A t \in Threads :
          (/\ fl[t].pc \in {"convert", "transcribe", "append", "rm_pcm", "rm_wav"}
           /\ ~InRegistry(fl[t].sid)
           /\ \/ FlushConvert(t) \/ FlushTranscribe(t) \/ FlushAppend(t)
              \/ FlushRemovePcm(t) \/ FlushRemoveWav(t)) =>
              /\ \A sid \in Sids : InRegistry(sid) => heap'[sid] = heap[sid]
              /\ fl'[t].pc \in {"transcribe", "append", "rm_pcm", "rm_wav", "none"}
              /\ fpc' = fpc
              /\ cloc' = cloc
      ]_vars

\* A flush has appended a text to a Session that had left the registry, and
\* the guild id of that Session has a new Session in the registry.
C22_Witness ==
    \E sid \in Sids :
        /\ ~InRegistry(sid)
        /\ Registered(sessions, created_for[sid])
        /\ \E i \in 1..Len(spoken[sid]) : ~spoken[sid][i][3] /\ spoken[sid][i][2] # <<>>

\* C23: with get_or_create_session and remove_session called from several
\* threads, a Session is stored under a guild id only when the guild id has
\* none, and neither method ends in KeyError.
C23_OneSessionPerCallId ==
    [][\A w \in Workers :
          /\ GocStore(w) => ~Registered(sessions, callers[w].guild)
          /\ GocReturn(w) => callers'[w].result # KeyError
          /\ RmDel(w) => callers'[w].result # KeyError
      ]_vars

\* The flusher thread is in the conversion or transcription of a flush.
InPhase == fl["flusher"].pc \in {"convert", "transcribe"}

\* C24: while the flusher's flush is in conversion or transcription, the
\* calling layer can run start_recording, set_user_name, remove_session and
\* process_audio_chunk to their end for every guild id and speaker; a
\* process_audio_chunk that gets the buffer of the speaker being flushed
\* gets the one now in the slot, which holds none of the bytes the flush
\* took, and its bytes are appended to that buffer.
C24_FlushPhaseHoldsNoLock ==
    [][InPhase =>
          /\ (cpc = "idle" /\ nops < MaxOps) =>
                \A g \in CallIds, u \in UserIds :
                    /\ ENABLED (StartRecording(g) /\ cpc' = "idle")
                    /\ ENABLED (RemoveSession(g) /\ cpc' = "idle")
                    /\ ENABLED (SetUserName(g, u, <<65>>) /\ cpc' = "idle")
                    /\ ENABLED ProcessAudioChunk(g, u, <<nchunks + 1>>)
          /\ cpc = "extend" => ENABLED ExtendChunk
          /\ \A g \in CallIds, u \in UserIds, data \in Chunks :
                (ProcessAudioChunk(g, u, data) /\ cpc' = "extend") =>
                    /\ cloc'.live
                    /\ Has(heap'[cloc'.sid].audio_buffers, u)
                    /\ (cloc'.sid = fl["flusher"].sid /\ u = fl["flusher"].uid) =>
                          Range(Get(heap'[cloc'.sid].audio_buffers, u, <<>>))
                              \cap Range(fl["flusher"].data) = {}
          /\ (ExtendChunk /\ cloc.live) =>
                Get(heap'[cloc.sid].audio_buffers, cloc.uid, <<>>)
                    = Buffer(cloc.sid, cloc.uid) \o cloc.data
      ]_vars

\* process_audio_chunk has returned for the speaker whose block the flusher
\* is converting or transcribing, and the speaker's buffer holds bytes, none
\* of them from that block.
C24_Witness ==
    /\ InPhase
    /\ cpc = "idle"
    /\ cloc.op = "chunk"
    /\ cloc.sid = fl["flusher"].sid
    /\ cloc.uid = fl["flusher"].uid
    /\ Buffer(cloc.sid, cloc.uid) # <<>>
    /\ Range(Buffer(cloc.sid, cloc.uid)) \cap Range(fl["flusher"].data) = {}

\* C25: a flush that reads no bytes for its speaker changes no session, no
\* file and no flush in progress, and takes and appends nothing.
C25_EmptyFlushIsNoOp ==
    [][(\/ StopNextUser /\ Buffer(cloc.sid, Head(cloc.keys)) = <<>>
        \/ FlusherUser /\ floc.keys # <<>> /\ Buffer(floc.sid, Head(floc.keys)) = <<>>) =>
          /\ heap' = heap
          /\ files' = files
          /\ fl' = fl
          /\ taken' = taken
          /\ settled' = settled
          /\ spoken' = spoken
      ]_vars

\* stop_recording has passed a speaker whose buffer is there, is empty and
\* was never taken by a flush.
C25_Witness ==
    /\ cpc = "stop_loop"
    /\ fl["caller"].pc = "none"
    /\ Len(cloc.keys) < Len(heap[cloc.sid].audio_buffers)
    /\ LET u == Keys(heap[cloc.sid].audio_buffers)[Len(heap[cloc.sid].audio_buffers) - Len(cloc.keys)]
       IN  taken[cloc.sid][u] = <<>> /\ Buffer(cloc.sid, u) = <<>>

\* C26: a Session gets a buffer entry for a speaker only in a step of
\* process_audio_chunk for that speaker on the session's guild id while the
\* session is recording, and a Session is created without any.
C26_BufferOnlyByIngestion ==
    [][/\ \A sid \in Sids, u \in UserIds :
            (Has(heap'[sid].audio_buffers, u) /\ ~Has(heap[sid].audio_buffers, u)) =>
                /\ heap[sid].is_recording
                /\ \E g \in CallIds, data \in Chunks :
                      /\ ProcessAudioChunk(g, u, data)
                      /\ Registered(sessions, g)
                      /\ Lookup(sessions, g) = sid
       /\ \A sid \in 1..Len(heap') : sid \notin Sids => heap'[sid].audio_buffers = <<>>
      ]_vars

\* A session that was started, fed by one speaker and stopped has a name
\* for another speaker and no buffer for that one.
C26_Witness ==
    \E sid \in Sids, u \in UserIds, v \in UserIds :
        /\ stopped[sid] # <<>>
        /\ Has(heap[sid].audio_buffers, u)
        /\ Has(heap[sid].user_names, v)
        /\ ~Has(heap[sid].audio_buffers, v)

\* C27: in every step, each speaker's segments before it are a prefix of
\* the speaker's segments after it, and the speakers of user_transcripts
\* before it are a prefix of the speakers after it.
C27_TranscriptsAppendOnly ==
    [][\A sid \in Sids :
          /\ \A u \in UserIds :
                IsPrefix(Segments(sid, u), Get(heap'[sid].user_transcripts, u, <<>>))
          /\ IsPrefix(Keys(heap[sid].user_transcripts), Keys(heap'[sid].user_transcripts))
      ]_vars

\* A speaker has two different segments in a session where two speakers
\* have segments.
C27_Witness ==
    \E sid \in Sids, u \in UserIds :
        /\ Len(Segments(sid, u)) >= 2
        /\ Segments(sid, u)[1] # Segments(sid, u)[2]
        /\ Len(heap[sid].user_transcripts) = 2

\* C28: the step of the tick loop that takes the next session from the
\* iterator over self.sessions never ends the flusher thread.
C28_RegistryChangeKeepsFlusher ==
    [][FlusherNext => fpc' # "dead"]_vars

\* The Session objects that were not created for guild id g are the same
\* after the step.
OthersUnchanged(g) == \A sid \in Sids : created_for[sid] # g => heap'[sid] = heap[sid]

\* C29: a call for a guild id, each of its later steps, and each step of a
\* flush of a session leave every Session created for another guild id as it
\* was.
C29_SessionsIsolatedByCallId ==
    [][/\ \A g \in CallIds :
            (\/ StartRecording(g)
             \/ StopRecording(g)
             \/ RemoveSession(g)
             \/ \E u \in UserIds, data \in Chunks : ProcessAudioChunk(g, u, data)
             \/ \E u \in UserIds, name \in Names : SetUserName(g, u, name)) =>
                OthersUnchanged(g)
       /\ (ExtendChunk \/ StopNextUser \/ StopCombine \/ CombineNext \/ StopReturn) =>
            OthersUnchanged(cloc.guild)
       /\ \A t \in Threads :
            (\/ FlushClear(t) \/ FlushPersist(t) \/ FlushConvert(t)
             \/ FlushTranscribe(t) \/ FlushAppend(t)
             \/ FlushRemovePcm(t) \/ FlushRemoveWav(t)) =>
                OthersUnchanged(created_for[fl[t].sid])
      ]_vars

\* Two sessions of different guild ids: one has a segment from a flush, the
\* other holds buffered audio.
C29_Witness ==
    \E a \in Sids, b \in Sids :
        /\ created_for[a] # created_for[b]
        /\ spoken[a] # <<>>
        /\ \E u \in UserIds : Buffer(b, u) # <<>>

\* C30: start_recording on a session that exists changes its recording flag
\* and nothing else; a guild id keeps its Session, and with it the names and
\* segments, in every step but remove_session of that guild id; and
\* stop_recording returns the transcript of the segments it read, in which
\* every speaker has the segments the session's last stop_recording to
\* return read as a prefix.
C30_RestartKeepsTranscript ==
    [][/\ \A g \in CallIds :
            (StartRecording(g) /\ Registered(sessions, g)) =>
                heap'[Lookup(sessions, g)]
                    = [heap[Lookup(sessions, g)] EXCEPT !.is_recording = TRUE]
       /\ \A g \in CallIds :
            (Registered(sessions, g) /\ ~RemoveSession(g)) =>
                /\ Registered(sessions', g)
                /\ Lookup(sessions', g) = Lookup(sessions, g)
                /\ \A u \in UserIds :
                      /\ IsPrefix(Segments(Lookup(sessions, g), u),
                                  Get(heap'[Lookup(sessions, g)].user_transcripts, u, <<>>))
                      /\ Has(heap[Lookup(sessions, g)].user_names, u)
                            => Has(heap'[Lookup(sessions, g)].user_names, u)
       /\ StopReturn =>
            /\ cloc'.result = Laid(Entries(cloc.read),
                                   [u \in UserIds |-> LabelOf(heap'[cloc.sid], u)])
            /\ stopped[cloc.sid] # <<>> =>
                  \A u \in UserIds :
                      IsPrefix(Get(stopped[cloc.sid][1], u, <<>>), Get(cloc.read, u, <<>>))
      ]_vars

\* start_recording has started a session again whose last stop_recording
\* returned segments, and the session has them.
C30_Witness ==
    /\ cpc = "idle"
    /\ cloc.op = "start"
    /\ ~cloc.absent
    /\ ~cloc.again
    /\ heap[cloc.sid].is_recording
    /\ stopped[cloc.sid] # <<>>
    /\ stopped[cloc.sid][1] # <<>>
    /\ \A u \in UserIds :
          IsPrefix(Get(stopped[cloc.sid][1], u, <<>>), Segments(cloc.sid, u))

====
